---------------------------- MODULE Spec2Model ----------------------------
(***************************************************************************)
(* decisionTableCompiler (src/dtc.c): the loader csvCb, the independence   *)
(* analysis namsInd, the tree builder nodBld, the consistency check        *)
(* nodChk, the emitter outNod and main's driver, as one state machine.     *)
(*                                                                         *)
(* Symbols are byte strings in the source; here a symbol is a natural      *)
(* number and symCmp is the order of the naturals.  A Name is identified   *)
(* by its symbol, a Value is the pair <<name, symbol>>, and every sorted   *)
(* array of the source is a sequence kept in the order of its comparison.  *)
(* A null pointer to an array is the empty sequence; a pointer to a tree   *)
(* node is the index of the node's entry in blds, 0 for null.              *)
(***************************************************************************)
EXTENDS Integers, Sequences, FiniteSets, TLC

VARIABLES
  csv,     \* struct csv: fil, syms, nams, infs, inf, col, coln, inCom, inNam
  nrows,   \* tokenizer: rows delivered so far over all files
  prow,    \* tokenizer: rows delivered so far in the current file
  pcol,    \* tokenizer: column of the next cell of the open row, -1 between rows
  q,       \* main: quick mode flag (-q)
  phase,   \* main: position of the driver
  vals,    \* main: independent values (namsInd's result)
  vinfs,   \* val_t.infs of every independent value
  blds,    \* memoization store, entries in order of installation
  nod,     \* main: root node (index in blds), 0 before the build
  out,     \* lines written to stdout
  err      \* diagnostics written to stderr

vars == <<csv, nrows, prow, pcol, q, phase, vals, vinfs, blds, nod, out, err>>

----------------------------------------------------------------------------
(* Bounds of the model *)

MaxSym == 2      \* symbols 1..MaxSym appear in cells of the cell-level loader
MaxCols == 3     \* cells per row
MaxRows == 3     \* rows over all files
MaxFiles == 2    \* input files
MaxInfs == 5     \* inferences of a table drawn from the pool
MaxWide == 6     \* inferences of a table drawn from the second pool

----------------------------------------------------------------------------
(* Comparisons *)

symCmp(e1, e2) == IF e1 < e2 THEN -1 ELSE IF e1 > e2 THEN 1 ELSE 0

namCmp(e1, e2) == symCmp(e1, e2)

valCmp(e1, e2) ==
  IF namCmp(e1[1], e2[1]) # 0 THEN namCmp(e1[1], e2[1]) ELSE symCmp(e1[2], e2[2])

RECURSIVE valsCmpFrom(_, _, _)
valsCmpFrom(e1, e2, i) ==
  IF i <= Len(e1) /\ i <= Len(e2)
  THEN IF valCmp(e1[i], e2[i]) # 0 THEN valCmp(e1[i], e2[i])
       ELSE valsCmpFrom(e1, e2, i + 1)
  ELSE IF Len(e1) < Len(e2) THEN -1 ELSE IF Len(e1) > Len(e2) THEN 1 ELSE 0

valsCmp(e1, e2) == valsCmpFrom(e1, e2, 1)

infCmp(e1, e2) ==
  IF valCmp(e1.val, e2.val) # 0 THEN valCmp(e1.val, e2.val)
  ELSE valsCmp(e1.vals, e2.vals)

RECURSIVE infsCmpFrom(_, _, _)
infsCmpFrom(e1, e2, i) ==
  IF i <= Len(e1) /\ i <= Len(e2)
  THEN IF infCmp(e1[i], e2[i]) # 0 THEN infCmp(e1[i], e2[i])
       ELSE infsCmpFrom(e1, e2, i + 1)
  ELSE IF Len(e1) < Len(e2) THEN -1 ELSE IF Len(e1) > Len(e2) THEN 1 ELSE 0

infsCmp(e1, e2) == infsCmpFrom(e1, e2, 1)

bldCmp(e1, e2) ==
  IF valsCmp(e1.vals, e2.vals) # 0 THEN valsCmp(e1.vals, e2.vals)
  ELSE infsCmp(e1.infs, e2.infs)

----------------------------------------------------------------------------
(* Interning tables.  Every Add returns [tab |-> the table afterwards,      *)
(* ret |-> the canonical element].                                          *)

\* the comparison functions handed to bsearch and qsort, by name
Cmp(f, a, b) ==
  CASE f = "symCmp" -> symCmp(a, b)
    [] f = "namsSrtCmp" -> namCmp(a.sym, b.sym)
    [] f = "valsSrtCmp" -> valCmp(a, b)
    [] f = "infsSrtCmp" -> infCmp(a, b)
    [] f = "infsValSchCmp" -> valCmp(a, b.val)

InsertAt(s, i, e) == SubSeq(s, 1, i - 1) \o <<e>> \o SubSeq(s, i, Len(s))

\* bsearch(3) over a sorted array: the index of an element equal to k, or 0
RECURSIVE bsearch(_, _, _, _, _)
bsearch(k, s, lo, hi, f) ==
  IF lo >= hi THEN 0
  ELSE LET mid == lo + (hi - lo) \div 2
           c == Cmp(f, k, s[mid + 1])
       IN IF c = 0 THEN mid + 1
          ELSE IF c < 0 THEN bsearch(k, s, lo, mid, f)
          ELSE bsearch(k, s, mid + 1, hi, f)

\* the binary search for the insertion position of valsAdd / infsAdd:
\* <<TRUE, index of the equal element>> or <<FALSE, lo>>
RECURSIVE InsPos(_, _, _, _, _)
InsPos(k, s, lo, hi, f) ==
  IF lo >= hi THEN <<FALSE, lo>>
  ELSE LET mid == lo + (hi - lo) \div 2
           c == Cmp(f, k, s[mid + 1])
       IN IF c = 0 THEN <<TRUE, mid + 1>>
          ELSE IF c < 0 THEN InsPos(k, s, lo, mid, f)
          ELSE InsPos(k, s, mid + 1, hi, f)

\* qsort(3) of an array that was sorted before one element was appended
RECURSIVE qsortLast(_, _, _)
qsortLast(s, e, f) ==
  IF s = <<>> THEN <<e>>
  ELSE IF Cmp(f, e, s[Len(s)]) < 0
       THEN Append(qsortLast(SubSeq(s, 1, Len(s) - 1), e, f), s[Len(s)])
       ELSE Append(s, e)

symsAdd(syms, sym) ==
  LET r == bsearch(sym, syms, 0, Len(syms), "symCmp")
  IN IF r # 0 THEN [tab |-> syms, ret |-> syms[r]]
     ELSE [tab |-> qsortLast(syms, sym, "symCmp"), ret |-> sym]

namsAdd(nams, nam) ==
  LET r == bsearch(nam, nams, 0, Len(nams), "namsSrtCmp")
  IN IF r # 0 THEN [tab |-> nams, ret |-> nams[r]]
     ELSE [tab |-> qsortLast(nams, nam, "namsSrtCmp"), ret |-> nam]

\* an Add that appends a new Value at the end of the array
valsAddLast(vs, val) ==
  IF \E i \in 1..Len(vs) : vs[i] = val THEN [tab |-> vs, ret |-> val]
  ELSE [tab |-> Append(vs, val), ret |-> val]

valsAdd(vs, val) ==
  LET p == InsPos(val, vs, 0, Len(vs), "valsSrtCmp")
  IN IF p[1] THEN [tab |-> vs, ret |-> vs[p[2]]]
     ELSE [tab |-> InsertAt(vs, p[2] + 1, val), ret |-> val]

infsAdd(infs, inf) ==
  LET p == InsPos(inf, infs, 0, Len(infs), "infsSrtCmp")
  IN IF p[1] THEN [tab |-> infs, ret |-> infs[p[2]]]
     ELSE [tab |-> InsertAt(infs, p[2] + 1, inf), ret |-> inf]

\* membership by bsearch with valsSchCmp
InVals(v, vs) == bsearch(v, vs, 0, Len(vs), "valsSrtCmp") # 0

\* bsearch(value, infs, infsValSchCmp): some inference concludes the value
Concluded(v, infs) == bsearch(v, infs, 0, Len(infs), "infsValSchCmp") # 0

Range(s) == {s[i] : i \in 1..Len(s)}

----------------------------------------------------------------------------
(* Constructors *)

namNew(sym) == [sym |-> sym, vals |-> <<>>]

valNew(nam, sym) == <<nam, sym>>

infNew(val, fil, row) == [val |-> val, vals |-> <<>>, fil |-> fil, row |-> row]

\* the Name of the registry with this symbol (a nam_t pointer dereferenced)
NamOf(nams, sym) == nams[CHOOSE i \in 1..Len(nams) : nams[i].sym = sym]

NamVals(nams, sym) == NamOf(nams, sym).vals


----------------------------------------------------------------------------
(* The loader: csvCb.  A cell is <<kind, symbol>>: "empty" (no bytes),      *)
(* "hash" (first byte '#'), "at" ('@' followed by the symbol, 0 for no      *)
(* byte after the '@') and "sym" (any other bytes).  "hash" and "at" are    *)
(* told from "sym" in column 0 only.  A result is the struct afterwards,    *)
(* the return code (0, 1, or 2 for a fault of the process) and the          *)
(* diagnostic written.                                                      *)

CbOk(V) == [V |-> V, rc |-> 0, msg |-> <<>>]

CbFail(V, m) == [V |-> V, rc |-> 1, msg |-> <<m>>]

CbFault(V) == [V |-> V, rc |-> 2, msg |-> <<>>]

\* case csvTp_Cb
csvCb_Cb(V) == CbOk([V EXCEPT !.inCom = FALSE, !.inNam = FALSE])

\* an end of row that interns the inference and reports no duplicate
csvCb_CeKeep(V) ==
  IF V.inf # <<>>
  THEN CbOk([V EXCEPT !.infs = infsAdd(V.infs, V.inf[1]).tab, !.inf = <<>>])
  ELSE CbOk(V)

\* case csvTp_Ce
csvCb_Ce(V) ==
  IF V.inf # <<>>
  THEN LET a == infsAdd(V.infs, V.inf[1])
       IN IF a.ret # V.inf[1]
          THEN CbFail(V, [k |-> "duplicate inf", fil1 |-> a.ret.fil, row1 |-> a.ret.row,
                          fil2 |-> V.inf[1].fil, row2 |-> V.inf[1].row])
          ELSE CbOk([V EXCEPT !.infs = a.tab, !.inf = <<>>])
  ELSE CbOk(V)

\* case csvTp_Cv, a cell of an '@' row
csvCb_CvNam(V, r, c, s) ==
  LET sa == symsAdd(V.syms, s)
      na == namsAdd(V.nams, namNew(sa.ret))
      V1 == [V EXCEPT !.syms = sa.tab, !.nams = na.tab]
  IN IF \E j \in 1..V.coln : V.col[j] = na.ret.sym
     THEN CbFail(V1, [k |-> "duplicate name", fil |-> V.fil, row |-> r, col |-> c])
     ELSE CbOk([V1 EXCEPT !.col = Append(V.col, na.ret.sym), !.coln = V.coln + 1])

\* a read of the column map that yields the Name of column 0 for any column
ColNamFirst(V, c, g) == IF 0 < V.coln THEN V.col[1] ELSE g

\* the nam_t that *(V->col + c) yields: inside the array the column's Name;
\* one past its end what happens to lie there, g (0: the process faults)
ColNam(V, c, g) == IF c < V.coln THEN V.col[c + 1] ELSE g

\* case csvTp_Cv, a cell of a data row
csvCb_CvVal(V, r, c, s, g) ==
  IF c > V.coln
  THEN CbFail(V, [k |-> "excess CSValue", fil |-> V.fil, row |-> r, col |-> c])
  ELSE IF ColNam(V, c, g) = 0 THEN CbFault(V)
  ELSE LET sa == symsAdd(V.syms, s)
           n == ColNam(V, c, g)
           val == valNew(n, sa.ret)
           va == valsAdd(NamVals(V.nams, n), val)
           V1 == [V EXCEPT !.syms = sa.tab,
                           !.nams = [i \in 1..Len(V.nams) |->
                                       IF V.nams[i].sym = n
                                       THEN [V.nams[i] EXCEPT !.vals = va.tab]
                                       ELSE V.nams[i]]]
       IN IF c = 0
          THEN CbOk([V1 EXCEPT !.inf = <<infNew(va.ret, V.fil, r)>>])
          ELSE IF V.inf = <<>> THEN CbFault(V1)
          ELSE LET ca == valsAdd(V.inf[1].vals, va.ret)
               IN IF ca.ret # va.ret
                  THEN CbFail(V1, [k |-> "duplicate val", fil |-> V.fil, row |-> r, col |-> c])
                  ELSE CbOk([V1 EXCEPT !.inf = <<[V.inf[1] EXCEPT !.vals = ca.tab]>>])

\* case csvTp_Cv
csvCb_Cv(V, r, c, cell, g) ==
  IF V.inCom THEN CbOk(V)
  ELSE IF cell[1] = "empty"
  THEN IF V.inNam
       THEN CbFail(V, [k |-> "Empty name in '@' row", fil |-> V.fil, row |-> r, col |-> c])
       ELSE IF c = 0
       THEN CbFail(V, [k |-> "Empty value", fil |-> V.fil, row |-> r, col |-> c])
       ELSE CbOk(V)
  ELSE IF c = 0 /\ cell[1] = "hash" THEN CbOk([V EXCEPT !.inCom = TRUE])
  ELSE IF c = 0 /\ cell[1] = "at" /\ cell[2] = 0
  THEN CbFail(V, [k |-> "Empty @name", fil |-> V.fil, row |-> r, col |-> c])
  ELSE LET V1 == IF c = 0 /\ cell[1] = "at"
                 THEN [V EXCEPT !.coln = 0, !.col = <<>>, !.inNam = TRUE]
                 ELSE V
       IN IF V1.inNam THEN csvCb_CvNam(V1, r, c, cell[2])
          ELSE csvCb_CvVal(V1, r, c, cell[2], g)

\* what the read of *(V->col + c) can yield for a cell of a data row
ColReads(V, c, cell) ==
  IF ~V.inCom /\ cell[1] = "sym" /\ ~V.inNam /\ c = V.coln
  THEN IF V.coln = 0 THEN {0} ELSE {0} \cup {V.nams[i].sym : i \in 1..Len(V.nams)}
  ELSE {0}

\* the cells the tokenizer can deliver in column c
Cells(c) ==
  IF c = 0
  THEN {<<"empty", 0>>, <<"hash", 0>>} \cup {<<"at", s>> : s \in 0..MaxSym}
         \cup {<<"sym", s>> : s \in 1..MaxSym}
  ELSE {<<"empty", 0>>} \cup {<<"sym", s>> : s \in 1..MaxSym}

csvNew == [fil |-> 1, syms |-> <<>>, nams |-> <<>>, infs |-> <<>>, inf |-> <<>>,
           col |-> <<>>, coln |-> 0, inCom |-> FALSE, inNam |-> FALSE]


----------------------------------------------------------------------------
(* Independence analysis.  G is the object graph the later phases read:     *)
(* G.nams the Name registry (val->nam->vals) and G.vinfs the infs field of  *)
(* every independent Value (val->infs).                                     *)

RECURSIVE infsValFrom(_, _, _, _)
infsValFrom(val, infs, j, r) ==
  IF j > Len(infs) THEN r
  ELSE infsValFrom(val, infs, j + 1,
                   IF InVals(val, infs[j].vals) THEN infsAdd(r, infs[j]).tab ELSE r)

\* the worklist v holds val alone and is never extended
infsVal(val, infs) == infsValFrom(val, infs, 1, <<>>)

RECURSIVE namsIndFrom(_, _, _, _, _)
namsIndFrom(nams, infs, i, j, r) ==
  IF i > Len(nams) THEN r
  ELSE IF j > Len(nams[i].vals) THEN namsIndFrom(nams, infs, i + 1, 1, r)
  ELSE namsIndFrom(nams, infs, i, j + 1,
                   IF ~Concluded(nams[i].vals[j], infs)
                   THEN valsAdd(r, nams[i].vals[j]).tab ELSE r)

\* the independent values, and the infs field set on each of them
namsInd(nams, infs) ==
  LET r == namsIndFrom(nams, infs, 1, 1, <<>>)
  IN [vals |-> r, vinfs |-> [v \in Range(r) |-> infsVal(v, infs)]]

\* val->infs is set (non-null)
HasInfs(G, v) == v \in DOMAIN G.vinfs

----------------------------------------------------------------------------
(* Resolution algebra *)

RECURSIVE TrnStep(_, _, _, _, _, _)
\* the two nested loops of one round: frontier v1, next frontier v2
TrnStep(v1, infs, i, j, r, v2) ==
  IF i > Len(v1) THEN [r |-> r, v2 |-> v2]
  ELSE IF j > Len(infs) THEN TrnStep(v1, infs, i + 1, 1, r, v2)
  ELSE IF Len(infs[j].vals) = 1 /\ infs[j].vals[1] = v1[i]
       THEN TrnStep(v1, infs, i, j + 1, infsAdd(r, infs[j]).tab, valsAdd(v2, infs[j].val).tab)
       ELSE TrnStep(v1, infs, i, j + 1, r, v2)

RECURSIVE TrnRounds(_, _, _, _)
RECURSIVE TrnRound(_, _, _)
\* for (;;): ends when a round adds nothing to v2; with n rounds to go.  A
\* frontier that is not empty after Len(infs) + 1 rounds never becomes empty.
TrnRounds(v1, infs, r, n) == TrnRound(infs, n, TrnStep(v1, infs, 1, 1, r, <<>>))

\* after the round with result s: if (!v2->n) break; else the next round
TrnRound(infs, n, s) ==
  IF s.v2 = <<>> THEN [r |-> s.r, hang |-> FALSE]
  ELSE IF n = 0 THEN [r |-> s.r, hang |-> TRUE]
  ELSE TrnRounds(s.v2, infs, s.r, n - 1)

\* single dependency transitive closure
infsValTrnAdd(val, infs, r) == TrnRounds(<<val>>, infs, r, Len(infs) + 1)

RECURSIVE TrnAllFrom(_, _, _)
RECURSIVE TrnAllNext(_, _, _)
\* for (j = 0; j < nV->n; ++j) infsValTrnAdd(nV[j]->val, infs, nV): the array
\* grows under the index
TrnAllFrom(r, infs, j) ==
  IF j > Len(r) THEN [r |-> r, hang |-> FALSE]
  ELSE TrnAllNext(infs, j, infsValTrnAdd(r[j].val, infs, r))

\* after the call of index j with result a
TrnAllNext(infs, j, a) == IF a.hang THEN a ELSE TrnAllFrom(a.r, infs, j + 1)

\* the closure of a bucket, when there is one
TrnAll(r, infs) == IF r # <<>> THEN TrnAllFrom(r, infs, 1) ELSE [r |-> <<>>, hang |-> FALSE]

RECURSIVE OtherInfsFrom(_, _, _, _)
OtherInfsFrom(G, e, vs, i) ==
  IF i > Len(vs) THEN 0
  ELSE (IF vs[i] # e THEN Len(G.vinfs[vs[i]]) ELSE 0) + OtherInfsFrom(G, e, vs, i + 1)

\* sum of "other" infs
OtherInfs(G, e) == OtherInfsFrom(G, e, NamVals(G.nams, e[1]), 1)

\* balance of "this" against "other": b = n > o ? n - o : o - n
Balance(n, o) == IF n > o THEN n - o ELSE o - n

\* overlap of "this" and "other": d = n > o ? o : n
Overlap(n, o) == IF n > o THEN o ELSE n

\* more balanced first, then more overlap first
valsInfsOrd(b1, b2, d1, d2) ==
  IF b1 < b2 THEN -1
  ELSE IF b1 > b2 THEN 1
  ELSE IF d1 > d2 THEN -1
  ELSE IF d1 < d2 THEN 1
  ELSE 0

valsInfsCmp(G, e1, e2) ==
  valsInfsOrd(Balance(Len(G.vinfs[e1]), OtherInfs(G, e1)),
              Balance(Len(G.vinfs[e2]), OtherInfs(G, e2)),
              Overlap(Len(G.vinfs[e1]), OtherInfs(G, e1)),
              Overlap(Len(G.vinfs[e2]), OtherInfs(G, e2)))

\* qsort(3) leaves the order of elements that compare equal unspecified: G
\* says which order this run's qsort produces, the elements' order in the
\* array (0) or the reverse of it (1, when G has the field rev)
TieOf(G) == IF "rev" \in DOMAIN G THEN 1 ELSE 0

RECURSIVE qsortIns(_, _, _)
\* e into the sorted s, after the elements that compare equal to it (before
\* them when the order of equal elements is reversed)
qsortIns(G, s, e) ==
  IF s = <<>> THEN <<e>>
  ELSE IF valsInfsCmp(G, e, s[Len(s)]) < TieOf(G)
       THEN Append(qsortIns(G, SubSeq(s, 1, Len(s) - 1), e), s[Len(s)])
       ELSE Append(s, e)

RECURSIVE qsortFrom(_, _, _, _)
qsortFrom(G, vs, i, r) ==
  IF i > Len(vs) THEN r ELSE qsortFrom(G, vs, i + 1, qsortIns(G, r, vs[i]))

\* qsort(vs, valsInfsCmp); elements that compare equal keep their order
qsortVals(G, vs) == qsortFrom(G, vs, 1, <<>>)

\* the Name of some condition of some inference of infs holds v (bsearch of v
\* in each inference's conditions)
InSomeInf(v, infs) == \E j \in 1..Len(infs) : InVals(v, infs[j].vals)

\* a filter that keeps a Value when any Value of its Name is a condition
valsSubValNamByName(vs, val, infs) ==
  SelectSeq(vs, LAMBDA v : v[1] # val[1]
                           /\ \E j \in 1..Len(infs) : \E k \in 1..Len(infs[j].vals) :
                                infs[j].vals[k][1] = v[1])

valsSubValNam(vs, val, infs) ==
  SelectSeq(vs, LAMBDA v : v[1] # val[1] /\ InSomeInf(v, infs))

valsSubVal(vs, val, infs) ==
  LET r == SelectSeq(vs, LAMBDA v : v # val /\ InSomeInf(v, infs))
      j == Cardinality({i \in 1..Len(r) : r[i][1] = val[1]})
  IN IF j = 1 THEN SelectSeq(r, LAMBDA v : v[1] # val[1]) ELSE r

\* the test of infsResVal on one inference common to infs and val->infs
ResolvedBy(vs, infs, val, inf) ==
  \A k \in 1..Len(inf.vals) :
    inf.vals[k] = val
    \/ (/\ ~InVals(inf.vals[k], vs)
        /\ ~\E m \in 1..Len(infs) :
              /\ infs[m].val = inf.vals[k]
              /\ \E n \in 1..Len(infs[m].vals) : InVals(infs[m].vals[n], vs))

RECURSIVE infsResValFrom(_, _, _, _, _, _, _)
infsResValFrom(G, vs, infs, val, i, j, r) ==
  IF i > Len(infs) \/ j > Len(G.vinfs[val]) THEN r
  ELSE LET c == infCmp(infs[i], G.vinfs[val][j])
       IN IF c < 0 THEN infsResValFrom(G, vs, infs, val, i + 1, j, r)
          ELSE IF c > 0 THEN infsResValFrom(G, vs, infs, val, i, j + 1, r)
          ELSE infsResValFrom(G, vs, infs, val, i + 1, j + 1,
                              IF ResolvedBy(vs, infs, val, infs[i])
                              THEN Append(r, infs[i]) ELSE r)

\* infs resolved by this val and not transitively dependent on the remaining vals
infsResVal(G, vs, infs, val) == infsResValFrom(G, vs, infs, val, 1, 1, <<>>)

RECURSIVE infsResValNamFrom(_, _, _, _, _, _, _)
\* r is <<>> while the pointer is null and <<result>> afterwards
infsResValNamFrom(G, vs, infs, val, sibs, i, r) ==
  IF i > Len(sibs) THEN r
  ELSE IF sibs[i] = val \/ ~InVals(sibs[i], vs)
       THEN infsResValNamFrom(G, vs, infs, val, sibs, i + 1, r)
       ELSE infsResValNamFrom(G, vs, infs, val, sibs, i + 1,
              <<infsResVal(G, vs, IF r # <<>> THEN r[1] ELSE infs, sibs[i])>>)

\* infs resolved by this val's nam's vals
infsResValNam(G, vs, infs, val) ==
  LET r == infsResValNamFrom(G, vs, infs, val, NamVals(G.nams, val[1]), 1, <<>>)
  IN IF r # <<>> THEN r[1] ELSE <<>>

RECURSIVE infsMnsFrom(_, _, _, _, _)
infsMnsFrom(infs1, infs2, i, j, r) ==
  IF i > Len(infs1) THEN r
  ELSE IF j > Len(infs2) THEN r \o SubSeq(infs1, i, Len(infs1))
  ELSE LET c == infCmp(infs1[i], infs2[j])
       IN IF c < 0 THEN infsMnsFrom(infs1, infs2, i + 1, j, Append(r, infs1[i]))
          ELSE IF c > 0 THEN infsMnsFrom(infs1, infs2, i, j + 1, r)
          ELSE infsMnsFrom(infs1, infs2, i + 1, j + 1, r)

\* Minus
infsMnsInfs(infs1, infs2) == infsMnsFrom(infs1, infs2, 1, 1, <<>>)

\* Strip inf with same val or other vals
infsSrpInfs(infs1, infs2) ==
  SelectSeq(infs1, LAMBDA x :
    /\ ~Concluded(x.val, infs2)
    /\ \A j \in 1..Len(x.vals) :
         ~\E k \in 1..Len(infs2) :
            x.vals[j] # infs2[k].val /\ x.vals[j][1] = infs2[k].val[1])


----------------------------------------------------------------------------
(* Tree builder.  A node is [val, infsV, infsO, nodV, nodO, d]; val is <<>>  *)
(* for a leaf; nodV and nodO are indices into blds, 0 for null.  Its lbl    *)
(* field is kept by the emitter.                                            *)

nodNew == [val |-> <<>>, infsV |-> <<>>, infsO |-> <<>>, nodV |-> 0, nodO |-> 0, d |-> 0]

\* the index of the entry equal to (vals, infs) under bldCmp, or 0
bldsFnd(bs, vs, infs) ==
  LET k == [vals |-> vs, infs |-> infs]
      hit == {i \in 1..Len(bs) : bldCmp(k, bs[i]) = 0}
  IN IF hit = {} THEN 0 ELSE CHOOSE i \in hit : TRUE

RECURSIVE SibMinusFrom(_, _, _, _, _)
\* infs minus the infs of every other value of val's Name
SibMinusFrom(G, val, sibs, j, d) ==
  IF j > Len(sibs) THEN d
  ELSE IF sibs[j] = val THEN SibMinusFrom(G, val, sibs, j + 1, d)
  ELSE SibMinusFrom(G, val, sibs, j + 1, infsMnsInfs(d, G.vinfs[sibs[j]]))

\* infs minus what a bucket concludes or contradicts: the continuation
Strip(d, a) == IF d # <<>> /\ a # <<>> THEN infsSrpInfs(d, a) ELSE d

\* the candidate from its continuations nV and nO
CandFrontier(vs, t, aV, aO, nV, nO) ==
  [hang |-> aV.hang \/ aO.hang, infsV |-> aV.r, infsO |-> aO.r,
   nV |-> nV, nO |-> nO,
   fV |-> IF nV # <<>> THEN valsSubValNam(vs, t, nV) ELSE <<>>,
   fO |-> IF nO # <<>> THEN valsSubVal(vs, t, nO) ELSE <<>>]

\* the candidate from its closed buckets aV and aO and the differences dV, dO
CandStrip(vs, t, aV, aO, dV, dO) ==
  CandFrontier(vs, t, aV, aO, Strip(dV, aV.r), Strip(dO, aO.r))

\* one candidate of nodBld's loop up to the child frontiers: the buckets
\* infsV and infsO, the continuations nV and nO, the frontiers fV and fO
\* (computed when the continuation is not empty)
Candidate(G, vs, infs, t) ==
  CandStrip(vs, t,
            TrnAll(infsResVal(G, vs, infs, t), infs),
            TrnAll(infsResValNam(G, vs, infs, t), infs),
            SibMinusFrom(G, t, NamVals(G.nams, t[1]), 1, infs),
            infsMnsInfs(infs, G.vinfs[t]))

\* a depth rule that counts a child without a test like any other child
CandDepthAnyChild(bs, nV, nO) ==
  IF nV = 0 /\ nO = 0 THEN 0
  ELSE IF nV # 0 /\ nO # 0
  THEN 1 + (IF bs[nV].nod.d > bs[nO].nod.d THEN bs[nV].nod.d ELSE bs[nO].nod.d)
  ELSE IF nV # 0 THEN 1 + bs[nV].nod.d
  ELSE 1 + bs[nO].nod.d

\* the depth of a candidate with children nV and nO (0 for null), or -1 when
\* the candidate is dropped because a child is not test-bearing
CandDepth(bs, nV, nO) ==
  IF nV = 0 /\ nO = 0 THEN 0
  ELSE IF nV # 0 /\ nO # 0 /\ bs[nV].nod.val # <<>> /\ bs[nO].nod.val # <<>>
  THEN 1 + (IF bs[nV].nod.d > bs[nO].nod.d THEN bs[nV].nod.d ELSE bs[nO].nod.d)
  ELSE IF nO = 0 /\ nV # 0 /\ bs[nV].nod.val # <<>> THEN 1 + bs[nV].nod.d
  ELSE IF nV = 0 /\ nO # 0 /\ bs[nO].nod.val # <<>> THEN 1 + bs[nO].nod.d
  ELSE -1

\* if (r->d > bd): the candidate is not better
OverBound(d, bd) == d > bd

\* the rule without the comparison of depths: only the first candidate that
\* fits is installed
InstallsFirst(best, d) == best.val = <<>>

\* if (!bld->nod->val || r->d < bld->nod->d): the candidate is installed
Installs(best, d) == best.val = <<>> \/ d < best.d

\* the result of building a child that is not needed (a null pointer)
NoChild(bs) == [blds |-> bs, nod |-> 0, hang |-> FALSE]

\* the candidate node r of test t
CandNod(t, c, nV, nO, d) ==
  [val |-> t, infsV |-> c.infsV, infsO |-> c.infsO, nodV |-> nV, nodO |-> nO, d |-> d]

\* the loop's state before its first candidate: the store, the node installed
\* (none), the bound, and whether a call did not return or the loop was left
LoopNew(bs, bd) == [blds |-> bs, best |-> nodNew, bd |-> bd, hang |-> FALSE, brk |-> FALSE]

\* the stop condition with the sense of q inverted
StopsNonQuick(qk, d) == qk = 0 \/ d = 0

\* a loop that ends at the first candidate installed, whatever q
StopsAtFirst(qk, d) == TRUE

\* if (q || !bld->nod->d) break
Stops(qk, d) == qk = 1 \/ d = 0

\* the candidate r is dropped, over the bound, installed (the loop then ends
\* or goes on under the bound r.d) or not better than the node installed
nodBldDepth(qk, S, r) ==
  IF r.d < 0 \/ OverBound(r.d, S.bd) THEN S
  ELSE IF Installs(S.best, r.d)
  THEN [S EXCEPT !.best = r,
                 !.brk = Stops(qk, r.d),
                 !.bd = IF Stops(qk, r.d) THEN S.bd ELSE r.d]
  ELSE S

\* with both children built (nV, and bO the build of nodO), the depth
nodBldO(qk, S, t, c, nV, bO) ==
  IF bO.hang THEN [S EXCEPT !.blds = bO.blds, !.hang = TRUE]
  ELSE nodBldDepth(qk, [S EXCEPT !.blds = bO.blds],
                   CandNod(t, c, nV, bO.nod, CandDepth(bO.blds, nV, bO.nod)))

RECURSIVE nodBld(_, _, _, _, _, _)
RECURSIVE nodBldV(_, _, _, _, _, _)
RECURSIVE nodBldCand(_, _, _, _, _)
RECURSIVE nodBldIter(_, _, _, _, _, _, _)
RECURSIVE nodBldLoop(_, _, _, _, _, _, _, _)

\* with nodV built (bV), nodO is built
nodBldV(G, qk, S, t, c, bV) ==
  IF bV.hang THEN [S EXCEPT !.blds = bV.blds, !.hang = TRUE]
  ELSE nodBldO(qk, S, t, c, bV.nod,
               IF c.nO # <<>> THEN nodBld(G, bV.blds, c.fO, c.nO, S.bd, qk)
               ELSE NoChild(bV.blds))

\* the candidate c of test t: dropped when a child frontier is empty, else
\* nodV is built
nodBldCand(G, qk, S, t, c) ==
  IF c.hang THEN [S EXCEPT !.hang = TRUE]
  ELSE IF (c.nV # <<>> /\ c.fV = <<>>) \/ (c.nO # <<>> /\ c.fO = <<>>) THEN S
  ELSE nodBldV(G, qk, S, t, c,
               IF c.nV # <<>> THEN nodBld(G, S.blds, c.fV, c.nV, S.bd, qk)
               ELSE NoChild(S.blds))

\* iteration i of the loop, entered in state S
nodBldIter(G, vs, infs, srt, qk, S, i) ==
  IF S.hang \/ S.brk THEN S
  ELSE nodBldCand(G, qk, S, srt[i], Candidate(G, vs, infs, srt[i]))

\* the loop over the sorted candidates srt: the state after n iterations
nodBldLoop(G, vs, infs, srt, qk, bs, bd, n) ==
  IF n = 0 THEN LoopNew(bs, bd)
  ELSE nodBldIter(G, vs, infs, srt, qk, nodBldLoop(G, vs, infs, srt, qk, bs, bd, n - 1), n)

\* the entry of (vals, infs): the best candidate, or a leaf holding infs
bldNew(vs, infs, best) ==
  [vals |-> vs, infs |-> infs,
   nod |-> IF best.val = <<>> THEN [best EXCEPT !.infsV = infs] ELSE best]

\* the loop's result res installed
nodBldEnd(vs, infs, res) ==
  IF res.hang THEN [blds |-> res.blds, nod |-> 0, hang |-> TRUE]
  ELSE [blds |-> Append(res.blds, bldNew(vs, infs, res.best)),
        nod |-> Len(res.blds) + 1, hang |-> FALSE]

\* a build that sorts its vals argument in place instead of a copy
nodBldSortsVals(G, bs, vs, infs, bd, qk) ==
  IF bldsFnd(bs, qsortVals(G, vs), infs) # 0
  THEN [blds |-> bs, nod |-> bldsFnd(bs, qsortVals(G, vs), infs), hang |-> FALSE]
  ELSE nodBldEnd(qsortVals(G, vs), infs,
                 nodBldLoop(G, qsortVals(G, vs), infs, qsortVals(G, vs), qk, bs, bd, Len(vs)))

\* build(vals, infs, bd, q): [blds: the store afterwards, nod: the index of the
\* node returned, hang: the call does not return]
nodBld(G, bs, vs, infs, bd, qk) ==
  IF bldsFnd(bs, vs, infs) # 0
  THEN [blds |-> bs, nod |-> bldsFnd(bs, vs, infs), hang |-> FALSE]
  ELSE nodBldEnd(vs, infs, nodBldLoop(G, vs, infs, qsortVals(G, vs), qk, bs, bd, Len(vs)))

----------------------------------------------------------------------------
(* Consistency check *)

\* a check that reports no pair
infsChkNone(b) == {}

\* the "unresolvable" diagnostics of one bucket
infsChk(infs) ==
  LET pr == {p \in (1..Len(infs)) \X (1..Len(infs)) :
               /\ p[1] < p[2]
               /\ infs[p[1]].val[1] = infs[p[2]].val[1]
               /\ infs[p[1]].val # infs[p[2]].val}
  IN {[k |-> "unresolvable", nam |-> infs[p[1]].val[1],
       sym1 |-> infs[p[1]].val[2], fil1 |-> infs[p[1]].fil, row1 |-> infs[p[1]].row,
       sym2 |-> infs[p[2]].val[2], fil2 |-> infs[p[2]].fil, row2 |-> infs[p[2]].row] : p \in pr}

RECURSIVE nodChk(_, _)
\* a check that passes over a node without a test
nodChkTests(bs, n) ==
  IF n = 0 THEN {}
  ELSE IF bs[n].nod.val = <<>> THEN {}
  ELSE infsChk(bs[n].nod.infsV) \cup infsChk(bs[n].nod.infsO)
         \cup nodChk(bs, bs[n].nod.nodV) \cup nodChk(bs, bs[n].nod.nodO)

\* the diagnostics nodChk writes for the tree under node n; it returns
\* non-zero when there is one
nodChk(bs, n) ==
  IF n = 0 THEN {}
  ELSE infsChk(bs[n].nod.infsV) \cup infsChk(bs[n].nod.infsO)
         \cup nodChk(bs, bs[n].nod.nodV) \cup nodChk(bs, bs[n].nod.nodO)


----------------------------------------------------------------------------
(* Emitter.  A line is <<"D", n>>, <<"I", val>>, <<"O", val>>,               *)
(* <<"T", val, label>>, <<"R", val>>, <<"L", label>> or <<"J", label>>.      *)
(* The output state O is struct out (b, l) with the lbl field of every      *)
(* node and the lines printed so far.                                       *)

outNew(bs) == [b |-> <<>>, l |-> 1, lbl |-> [i \in 1..Len(bs) |-> 0], lines |-> <<>>]

Put(O, line) == [O EXCEPT !.lines = Append(@, line)]

\* compare infs by result values
outCmp(a, b) ==
  IF a = <<>> /\ b = <<>> THEN 0
  ELSE IF a = <<>> \/ b = <<>> \/ Len(a) # Len(b) THEN 1
  ELSE IF \E i \in 1..Len(a) : valCmp(a[i].val, b[i].val) # 0 THEN 1
  ELSE 0

\* find or reserve label for branch: [O, l, dup]
outBrnLbl(O, infs, n) ==
  LET hit == {i \in 1..Len(O.b) : O.b[i].n = n /\ outCmp(O.b[i].i, infs) = 0}
  IN IF hit # {}
     THEN [O |-> O, l |-> O.b[CHOOSE i \in hit : \A j \in hit : i <= j].l, dup |-> TRUE]
     ELSE [O |-> [O EXCEPT !.l = O.l + 1,
                           !.b = Append(O.b, [i |-> infs, n |-> n, l |-> O.l])],
           l |-> O.l, dup |-> FALSE]

RECURSIVE PutR(_, _, _)
\* the R lines of a bucket
PutR(O, infs, i) ==
  IF i > Len(infs) THEN O ELSE PutR(Put(O, <<"R", infs[i].val>>), infs, i + 1)

\* the label outNod stores in nod->lbl on its first visit of a node
NodLbl(O) == O.l

RECURSIVE outNod(_, _, _)
RECURSIVE outBrnCon(_, _, _, _)
RECURSIVE outBrn(_, _, _, _)

\* output branch content
outBrnCon(O, bs, infs, n) ==
  LET O1 == PutR(O, infs, 1)
  IN IF n # 0 THEN outNod(O1, bs, n) ELSE Put(O1, <<"J", 0>>)

\* output branch with deduplication
outBrn(O, bs, infs, n) ==
  LET x == outBrnLbl(O, infs, n)
  IN IF x.dup THEN Put(x.O, <<"J", x.l>>)
     ELSE outBrnCon(Put(x.O, <<"L", x.l>>), bs, infs, n)

\* output node
outNod(O, bs, n) ==
  IF n = 0 THEN O
  ELSE IF O.lbl[n] # 0 THEN Put(O, <<"J", O.lbl[n]>>)
  ELSE LET O1 == [O EXCEPT !.lbl[n] = NodLbl(O)]
           nd == bs[n].nod
       IN IF nd.val = <<>> THEN PutR(O1, nd.infsV, 1)
          ELSE LET x == outBrnLbl(O1, nd.infsV, nd.nodV)
                   O2 == Put(x.O, <<"T", nd.val, x.l>>)
                   O3 == outBrn(O2, bs, nd.infsO, nd.nodO)
               IN IF ~x.dup THEN outBrnCon(Put(O3, <<"L", x.l>>), bs, nd.infsV, nd.nodV)
                  ELSE O3

\* a header line that carries the depth field itself
DLineDepth(nd) == <<"D", nd.d>>

\* the header line: printf("D,%u\n", nod->d + 1)
DLine(nd) == <<"D", nd.d + 1>>

\* main's output block: D, the tree, L,0
outMain(bs, n) ==
  Append(outNod(Put(outNew(bs), DLine(bs[n].nod)), bs, n).lines, <<"L", 0>>)

RECURSIVE ILines(_, _)
ILines(vs, i) == IF i > Len(vs) THEN <<>> ELSE <<<<"I", vs[i]>>>> \o ILines(vs, i + 1)

RECURSIVE OLines(_, _)
\* one O line per distinct conclusion of the sorted registry
OLines(infs, i) ==
  IF i > Len(infs) THEN <<>>
  ELSE (IF i > 1 /\ infs[i].val = infs[i - 1].val THEN <<>> ELSE <<<<"O", infs[i].val>>>>)
         \o OLines(infs, i + 1)

----------------------------------------------------------------------------
(* main: the driver.  phase is "load" while the files are parsed, then      *)
(* "checked", "analysed", "built", "chkd" after each step that passed, and  *)
(* "exit" at the label exit; "fault" is a fault of the process in the       *)
(* loader and "hang" a build that does not return.                          *)

\* the semantic checks after the load
SemDiags(V) ==
  {[k |-> "fewer than two values", nam |-> V.nams[i].sym] :
     i \in {j \in 1..Len(V.nams) : Len(V.nams[j].vals) < 2}}
  \cup {[k |-> "no dependencies", fil |-> V.infs[i].fil, row |-> V.infs[i].row] :
     i \in {j \in 1..Len(V.infs) : Len(V.infs[j].vals) = 0}}

\* !(vals = namsInd(...)) || !vals->n
NoInd(vs) == Len(vs) = 0

\* a driver that skips the check of the independent names
IndDiagsNone(G, vs) == {}

\* an independent value's Name has a value whose infs field is not set
IndDiags(G, vs) ==
  {[k |-> "independent name has dependent value", nam |-> p[1][1], sym |-> p[2][2]] :
     p \in {x \in Range(vs) \X UNION {Range(G.nams[i].vals) : i \in 1..Len(G.nams)} :
              x[1][1] = x[2][1] /\ ~HasInfs(G, x[2])}}

\* a driver that goes on to the output block whatever nodChk returns
ChkNextAlways(d) == "chkd"

\* if (nodChk(nod, argv[0])) goto exit
ChkNext(d) == IF d # {} THEN "exit" ELSE "chkd"

\* what a callback's result does to the run: csvParse stops at a non-zero
\* return and main reports the file
Deliver(res) ==
  /\ csv' = res.V
  /\ err' = IF res.rc = 1
            THEN err \cup {res.msg[1], [k |-> "CSV parse fail", fil |-> csv.fil]}
            ELSE err
  /\ phase' = IF res.rc = 0 THEN "load" ELSE IF res.rc = 1 THEN "exit" ELSE "fault"

RowBegin ==
  /\ phase = "load" /\ pcol = -1 /\ nrows < MaxRows
  /\ Deliver(csvCb_Cb(csv))
  /\ pcol' = 0
  /\ UNCHANGED <<nrows, prow, q, vals, vinfs, blds, nod, out>>

Cell ==
  /\ phase = "load" /\ pcol >= 0 /\ pcol < MaxCols
  /\ \E cell \in Cells(pcol) : \E g \in ColReads(csv, pcol, cell) :
       Deliver(csvCb_Cv(csv, prow + 1, pcol, cell, g))
  /\ pcol' = pcol + 1
  /\ UNCHANGED <<nrows, prow, q, vals, vinfs, blds, nod, out>>

RowEnd ==
  /\ phase = "load" /\ pcol >= 1
  /\ Deliver(csvCb_Ce(csv))
  /\ pcol' = -1 /\ prow' = prow + 1 /\ nrows' = nrows + 1
  /\ UNCHANGED <<q, vals, vinfs, blds, nod, out>>

NextFile ==
  /\ phase = "load" /\ pcol = -1 /\ csv.fil < MaxFiles
  /\ csv' = [csv EXCEPT !.fil = @ + 1]
  /\ prow' = 0
  /\ UNCHANGED <<nrows, pcol, q, phase, vals, vinfs, blds, nod, out, err>>

Check ==
  /\ phase = "load" /\ pcol = -1
  /\ err' = err \cup SemDiags(csv)
  /\ phase' = IF SemDiags(csv) # {} THEN "exit" ELSE "checked"
  /\ UNCHANGED <<csv, nrows, prow, pcol, q, vals, vinfs, blds, nod, out>>

Analyse ==
  /\ phase = "checked"
  /\ LET r == namsInd(csv.nams, csv.infs)
         G == [nams |-> csv.nams, vinfs |-> r.vinfs]
     IN /\ vals' = r.vals
        /\ vinfs' = r.vinfs
        /\ IF NoInd(r.vals)
           THEN /\ err' = err \cup {[k |-> "no independent values"]}
                /\ phase' = "exit"
                /\ out' = out
           ELSE IF IndDiags(G, r.vals) # {}
           THEN /\ err' = err \cup IndDiags(G, r.vals)
                /\ phase' = "exit"
                /\ out' = out
           ELSE /\ err' = err
                /\ phase' = "analysed"
                /\ out' = out \o ILines(r.vals, 1) \o OLines(csv.infs, 1)
  /\ UNCHANGED <<csv, nrows, prow, pcol, q, blds, nod>>

Build ==
  /\ phase = "analysed"
  /\ LET r == nodBld([nams |-> csv.nams, vinfs |-> vinfs], <<>>, vals, csv.infs, Len(vals), q)
     IN IF r.hang
        THEN /\ phase' = "hang"
             /\ UNCHANGED <<blds, nod>>
        ELSE /\ phase' = "built"
             /\ blds' = r.blds
             /\ nod' = r.nod
  /\ UNCHANGED <<csv, nrows, prow, pcol, q, vals, vinfs, out, err>>

Chk ==
  /\ phase = "built"
  /\ err' = err \cup nodChk(blds, nod)
  /\ phase' = ChkNext(nodChk(blds, nod))
  /\ UNCHANGED <<csv, nrows, prow, pcol, q, vals, vinfs, blds, nod, out>>

Emit ==
  /\ phase = "chkd"
  /\ out' = out \o outMain(blds, nod)
  /\ phase' = "exit"
  /\ UNCHANGED <<csv, nrows, prow, pcol, q, vals, vinfs, blds, nod, err>>

Init ==
  /\ csv = csvNew
  /\ nrows = 0 /\ prow = 0 /\ pcol = -1
  /\ q \in {0, 1}
  /\ phase = "load"
  /\ vals = <<>> /\ vinfs = <<>> /\ blds = <<>> /\ nod = 0
  /\ out = <<>> /\ err = {}

Next ==
  \/ RowBegin
  \/ Cell
  \/ RowEnd
  \/ NextFile
  \/ Check
  \/ Analyse
  \/ Build
  \/ Chk
  \/ Emit

Spec == Init /\ [][Next]_vars

----------------------------------------------------------------------------
(* The compiler on loaded tables.  A table is a set of at most MaxInfs      *)
(* inferences of Pool, written one header row and one data row each in one  *)
(* file; the state after the load is computed by the loader's callbacks.    *)
(* Names 1..3 are tested, names 4 and 5 concluded (4 also tested by 5, and  *)
(* 5 by 4).                                                                 *)

PoolInf(c, cs) == [val |-> c, vals |-> cs]

Pool ==
  << PoolInf(<<4, 1>>, << <<2, 1>> >>),
     PoolInf(<<4, 2>>, << <<1, 1>> >>),
     PoolInf(<<5, 1>>, << <<2, 2>> >>),
     PoolInf(<<5, 2>>, << <<1, 2>> >>),
     PoolInf(<<4, 1>>, << <<2, 2>> >>),
     PoolInf(<<4, 2>>, << <<1, 1>>, <<3, 2>> >>),
     PoolInf(<<4, 2>>, << <<1, 2>>, <<2, 1>> >>),
     PoolInf(<<4, 2>>, << <<3, 1>> >>),
     PoolInf(<<4, 1>>, << <<1, 1>> >>),
     PoolInf(<<4, 2>>, << <<1, 2>> >>),
     PoolInf(<<4, 2>>, << <<1, 2>>, <<2, 2>> >>),
     PoolInf(<<5, 1>>, << <<4, 1>> >>),
     PoolInf(<<5, 2>>, << <<4, 2>> >>),
     PoolInf(<<4, 1>>, << <<5, 1>> >>),
     PoolInf(<<4, 2>>, << <<5, 2>> >>) >>

RECURSIVE TablesOfLen(_)
\* the tables of k inferences: increasing sequences of pool entries
TablesOfLen(k) ==
  IF k <= 1 THEN {<<i>> : i \in 1..Len(Pool)}
  ELSE UNION {{Append(t, i) : i \in (t[Len(t)] + 1)..Len(Pool)} : t \in TablesOfLen(k - 1)}

Tables == UNION {TablesOfLen(k) : k \in 1..MaxInfs}

HeaderCells(p) == << <<"at", p.val[1]>> >> \o [i \in 1..Len(p.vals) |-> <<"sym", p.vals[i][1]>>]

DataCells(p) == << <<"sym", p.val[2]>> >> \o [i \in 1..Len(p.vals) |-> <<"sym", p.vals[i][2]>>]

\* csvParse delivers the next event only after a callback that returned 0
Then(res, next) == IF res.rc # 0 THEN res ELSE next

RECURSIVE LoadCells(_, _, _, _)
RECURSIVE LoadCell(_, _, _, _)
\* the Cb callback and the Cv callbacks of the first n cells of a row
LoadCells(V, r, cells, n) ==
  IF n = 0 THEN csvCb_Cb(V)
  ELSE LoadCell(LoadCells(V, r, cells, n - 1), r, cells, n)

\* the Cv callback of cell n after the callbacks before it
LoadCell(res, r, cells, n) == Then(res, csvCb_Cv(res.V, r, n - 1, cells[n], 0))

\* the Ce callback after the callbacks before it
LoadEnd(res) == Then(res, csvCb_Ce(res.V))

\* the Cb, Cv and Ce callbacks of one row
LoadRow(res, r, cells) == Then(res, LoadEnd(LoadCells(res.V, r, cells, Len(cells))))

\* the header row r and the data row r + 1 of inference p
LoadInf(res, r, p) == LoadRow(LoadRow(res, r, HeaderCells(p)), r + 1, DataCells(p))

RECURSIVE LoadTable(_, _)
\* csvParse over the rows of the first n inferences of table t
LoadTable(t, n) ==
  IF n = 0 THEN CbOk(csvNew)
  ELSE LoadInf(LoadTable(t, n - 1), 2 * n - 1, Pool[t[n]])

InitBuild ==
  /\ \E t \in Tables :
       /\ LoadTable(t, Len(t)).rc = 0
       /\ csv = LoadTable(t, Len(t)).V
       /\ nrows = 2 * Len(t)
       /\ prow = 2 * Len(t)
  /\ pcol = -1
  /\ q \in {0, 1}
  /\ phase = "load"
  /\ vals = <<>> /\ vinfs = <<>> /\ blds = <<>> /\ nod = 0
  /\ out = <<>> /\ err = {}

NextBuild ==
  \/ Check
  \/ Analyse
  \/ Build
  \/ Chk
  \/ Emit

SpecBuild == InitBuild /\ [][NextBuild]_vars

\* a second pool: tables over four independent Names (entries 1 to 4),
\* tables with a chain of three concluded Names, 6 from 7 from 5 (entries
\* 5 to 10) and tables over Names of three Values (entries 11 to 15)
WideBinary == 10

WidePool ==
  << PoolInf(<<4, 1>>, << <<1, 1>>, <<5, 2>> >>),
     PoolInf(<<4, 1>>, << <<1, 2>>, <<2, 1>>, <<5, 1>> >>),
     PoolInf(<<4, 1>>, << <<2, 2>>, <<3, 1>>, <<5, 1>> >>),
     PoolInf(<<4, 2>>, << <<3, 2>> >>),
     PoolInf(<<6, 1>>, << <<1, 1>>, <<7, 1>> >>),
     PoolInf(<<6, 2>>, << <<1, 2>> >>),
     PoolInf(<<7, 1>>, << <<5, 1>> >>),
     PoolInf(<<7, 2>>, << <<5, 2>> >>),
     PoolInf(<<5, 1>>, << <<2, 1>> >>),
     PoolInf(<<5, 2>>, << <<2, 2>> >>),
     PoolInf(<<4, 2>>, << <<1, 2>>, <<2, 2>> >>),
     PoolInf(<<4, 3>>, << <<1, 1>>, <<3, 2>> >>),
     PoolInf(<<4, 3>>, << <<1, 3>>, <<3, 1>> >>),
     PoolInf(<<4, 3>>, << <<2, 1>> >>),
     PoolInf(<<4, 3>>, << <<3, 3>> >>) >>

RECURSIVE WideTablesOfLen(_)
WideTablesOfLen(k) ==
  IF k <= 1 THEN {<<i>> : i \in 1..Len(WidePool)}
  ELSE UNION {{Append(t, i) : i \in (t[Len(t)] + 1)..Len(WidePool)} :
                t \in WideTablesOfLen(k - 1)}

\* the tables of the second pool: of entries up to WideBinary, or of later ones
WideTables ==
  {t \in UNION {WideTablesOfLen(k) : k \in 1..MaxWide} :
     t[Len(t)] <= WideBinary \/ t[1] > WideBinary}

\* the rows of inference p after the rows before it, when these were accepted
LoadWideNext(res, r, p) == IF res.rc # 0 THEN res ELSE LoadInf(CbOk(res.V), r, p)

RECURSIVE LoadWide(_, _)
\* csvParse over the rows of the first n inferences of table t of WidePool
LoadWide(t, n) ==
  IF n = 0 THEN CbOk(csvNew)
  ELSE LoadWideNext(LoadWide(t, n - 1), 2 * n - 1, WidePool[t[n]])

InitWide ==
  /\ \E t \in WideTables :
       /\ LoadWide(t, Len(t)).rc = 0
       /\ csv = LoadWide(t, Len(t)).V
       /\ nrows = 2 * Len(t)
       /\ prow = 2 * Len(t)
  /\ pcol = -1
  /\ q \in {0, 1}
  /\ phase = "load"
  /\ vals = <<>> /\ vinfs = <<>> /\ blds = <<>> /\ nod = 0
  /\ out = <<>> /\ err = {}

SpecWide == InitWide /\ [][NextBuild]_vars

----------------------------------------------------------------------------
(* The listing's meaning, forward chaining and the depth of trees: what the *)
(* properties below measure the compiler against.                           *)

\* the run reached the end of main's output block
Emitted == phase = "exit" /\ out # <<>> /\ out[Len(out)] = <<"L", 0>>

\* the lines of a kind
LinesOf(lines, kind) == {i \in 1..Len(lines) : lines[i][1] = kind}

\* the lines of the program proper
CodeLines(lines) == {i \in 1..Len(lines) : lines[i][1] \in {"D", "T", "R", "L", "J"}}

\* the first line L,n, or 0 when there is none
LabelAt(lines, n) ==
  IF \E i \in LinesOf(lines, "L") : lines[i][2] = n
  THEN CHOOSE i \in LinesOf(lines, "L") :
         lines[i][2] = n /\ \A j \in LinesOf(lines, "L") : lines[j][2] = n => i <= j
  ELSE 0

RECURSIVE Run(_, _, _, _, _, _)
\* the replay from line pc: T jumps when the name has the value and falls
\* through otherwise, R records, J jumps, L,0 ends.  st is "end", "undef" (a
\* jump to a label no line defines), "fell" (past the last line) or "loop".
Run(lines, a, pc, rec, tests, fuel) ==
  IF pc = 0 THEN [rec |-> rec, tests |-> tests, st |-> "undef"]
  ELSE IF pc > Len(lines) THEN [rec |-> rec, tests |-> tests, st |-> "fell"]
  ELSE IF fuel = 0 THEN [rec |-> rec, tests |-> tests, st |-> "loop"]
  ELSE CASE lines[pc][1] = "T" ->
              IF a[lines[pc][2][1]] = lines[pc][2][2]
              THEN Run(lines, a, LabelAt(lines, lines[pc][3]), rec, tests + 1, fuel - 1)
              ELSE Run(lines, a, pc + 1, rec, tests + 1, fuel - 1)
         [] lines[pc][1] = "R" ->
              Run(lines, a, pc + 1, rec \cup {lines[pc][2]}, tests, fuel - 1)
         [] lines[pc][1] = "J" ->
              Run(lines, a, LabelAt(lines, lines[pc][2]), rec, tests, fuel - 1)
         [] lines[pc][1] = "L" ->
              IF lines[pc][2] = 0 THEN [rec |-> rec, tests |-> tests, st |-> "end"]
              ELSE Run(lines, a, pc + 1, rec, tests, fuel - 1)
         [] OTHER -> Run(lines, a, pc + 1, rec, tests, fuel - 1)

\* a run that visits no line twice takes at most Len(lines) steps
Replay(lines, a) == Run(lines, a, 1, {}, 0, Len(lines) + 1)

IndNams(vs) == {vs[i][1] : i \in 1..Len(vs)}

\* the assignments of exactly one Value to each independent Name
Asgs(vs) ==
  {a \in [IndNams(vs) -> {vs[i][2] : i \in 1..Len(vs)}] :
     \A n \in IndNams(vs) : <<n, a[n]>> \in Range(vs)}

Given(a) == {<<n, a[n]>> : n \in DOMAIN a}

RECURSIVE Chain(_, _)
\* forward chaining: an inference fires when every condition is known
Chain(infs, known) ==
  LET new == {infs[i].val : i \in {j \in 1..Len(infs) : Range(infs[j].vals) \subseteq known}}
  IN IF new \subseteq known THEN known ELSE Chain(infs, known \cup new)

\* the conclusions derivable under assignment a
Derivable(infs, a) == Chain(infs, Given(a)) \ Given(a)

Max(S) == CHOOSE x \in S : \A y \in S : y <= x

Min(S) == CHOOSE x \in S : \A y \in S : x <= y

RECURSIVE OptDepth(_, _, _)
\* the least depth over all trees for (vs, infs), every candidate tried that
\* no infeasibility rule excludes; -1 when there is no such tree
OptDepth(G, vs, infs) ==
  LET D(t) ==
        LET c == Candidate(G, vs, infs, t)
            dV == IF c.nV # <<>> THEN OptDepth(G, c.fV, c.nV) ELSE -2
            dO == IF c.nO # <<>> THEN OptDepth(G, c.fO, c.nO) ELSE -2
        IN IF c.hang THEN -1
           ELSE IF (c.nV # <<>> /\ c.fV = <<>>) \/ (c.nO # <<>> /\ c.fO = <<>>) THEN -1
           ELSE IF dV = -2 /\ dO = -2 THEN 0
           ELSE IF dV = -1 \/ dO = -1 THEN -1
           ELSE 1 + Max({dV, dO, 0})
      ds == {D(vs[i]) : i \in 1..Len(vs)} \ {-1}
  IN IF ds = {} THEN -1 ELSE Min(ds)

RECURSIVE TreeTests(_, _)
\* the number of tests on the longest path from node n to a leaf
TreeTests(bs, n) ==
  IF n = 0 THEN 0
  ELSE IF bs[n].nod.val = <<>> THEN 0
  ELSE 1 + Max({TreeTests(bs, bs[n].nod.nodV), TreeTests(bs, bs[n].nod.nodO)})

RECURSIVE Buckets(_, _)
\* the buckets of the tree under node n
Buckets(bs, n) ==
  IF n = 0 THEN {}
  ELSE {bs[n].nod.infsV, bs[n].nod.infsO}
         \cup Buckets(bs, bs[n].nod.nodV) \cup Buckets(bs, bs[n].nod.nodO)

\* the pairs of a bucket that conclude different Values of one Name
Conflicts(b) ==
  {p \in (1..Len(b)) \X (1..Len(b)) :
     b[p[1]].val[1] = b[p[2]].val[1] /\ b[p[1]].val[2] # b[p[2]].val[2]}

\* the object graph after the analysis
Graph == [nams |-> csv.nams, vinfs |-> vinfs]

----------------------------------------------------------------------------
(* Properties *)

\* C1: for every table that compiles and every assignment of one Value to
\* each independent Name, the replay of the emitted listing ends at L,0 and
\* records exactly the conclusions derivable by forward chaining over the
\* loaded inferences.
C1_ReplayIsForwardChaining ==
  Emitted =>
    \A a \in Asgs(vals) :
      /\ Replay(out, a).st = "end"
      /\ Replay(out, a).rec = Derivable(csv.infs, a)

\* C1: a compiled table all of whose labels are defined, with an assignment
\* whose replay ends at L,0 having recorded two Values of one Name.
C1_ReplayRecordsTwoValues ==
  /\ Emitted
  /\ \A i \in LinesOf(out, "J") : LabelAt(out, out[i][2]) # 0
  /\ \E a \in Asgs(vals) :
       /\ Replay(out, a).st = "end"
       /\ \E v \in Replay(out, a).rec : \E w \in Replay(out, a).rec :
            v[1] = w[1] /\ v[2] # w[2]

\* the root of the finished build
Root == blds[nod].nod

Built == phase \in {"built", "chkd", "exit"} /\ nod # 0

BuildWith(qk) == nodBld(Graph, <<>>, vals, csv.infs, Len(vals), qk)

\* the run with the flag qk writes a D line: its build returns and nodChk
\* finds nothing
WritesD(qk) ==
  /\ ~BuildWith(qk).hang
  /\ nodChk(BuildWith(qk).blds, BuildWith(qk).nod) = {}

\* the D value the run with the flag qk writes
DValue(qk) == DLine(BuildWith(qk).blds[BuildWith(qk).nod].nod)[2]

\* C3: on every input on which the run with -q and the run without it both
\* write a D line, the D value with -q is at least the D value without.
C3_QuickNotShallower ==
  (phase = "chkd" /\ q = 1 /\ WritesD(0)) => DLine(Root)[2] >= DValue(0)

\* C3: a quick run about to write a D value greater than the one the run
\* without -q writes.
C3_QuickDeeper ==
  phase = "chkd" /\ q = 1 /\ WritesD(0) /\ DLine(Root)[2] > DValue(0)

\* the labels that are targets of J and T lines
Targets(lines) ==
  {lines[i][2] : i \in LinesOf(lines, "J")} \cup {lines[i][3] : i \in LinesOf(lines, "T")}

\* the number of lines L,n
Defs(lines, n) == Cardinality({i \in LinesOf(lines, "L") : lines[i][2] = n})

\* C4: in every emitted listing each label that is the target of a J or a T
\* line is defined by exactly one L line, and L,0 occurs exactly once, as the
\* last line.
C4_LabelsDefinedOnce ==
  Emitted =>
    /\ \A n \in Targets(out) : Defs(out, n) = 1
    /\ Defs(out, 0) = 1
    /\ out[Len(out)] = <<"L", 0>>

\* C4: an emitted listing with a J line whose label no L line defines.
C4_JumpToUndefinedLabel ==
  Emitted /\ \E i \in LinesOf(out, "J") : Defs(out, out[i][2]) = 0

\* the diagnostic of the pair p of bucket b
Unresolvable(b, p) ==
  [k |-> "unresolvable", nam |-> b[p[1]].val[1],
   sym1 |-> b[p[1]].val[2], fil1 |-> b[p[1]].fil, row1 |-> b[p[1]].row,
   sym2 |-> b[p[2]].val[2], fil2 |-> b[p[2]].fil, row2 |-> b[p[2]].row]

\* C5: if after the build a bucket of the tree holds two inferences that
\* conclude different Values of one Name, the run reports every such pair as
\* unresolvable with the file and row of both, and writes no D, T, R, L or J
\* line; so no bucket of an emitted program records two Values of one Name.
C5_UnresolvableStopsEmission ==
  /\ (phase \in {"chkd", "exit"} /\ nod # 0) =>
       \A b \in Buckets(blds, nod) :
         Conflicts(b) # {} =>
           /\ phase = "exit"
           /\ CodeLines(out) = {}
           /\ \A p \in Conflicts(b) : p[1] < p[2] => Unresolvable(b, p) \in err
  /\ Emitted => \A b \in Buckets(blds, nod) : Conflicts(b) = {}

\* C5: a run that ended on a tree with a conflicting bucket, the diagnostic
\* written.
C5_UnresolvableReported ==
  /\ phase = "exit" /\ nod # 0
  /\ \E b \in Buckets(blds, nod) : Conflicts(b) # {}
  /\ \E e \in err : e.k = "unresolvable"

\* the inferences of the registry equal to inf: same conclusion, same set of
\* conditions
DupOf(infs, inf) ==
  {i \in 1..Len(infs) : infs[i].val = inf.val /\ Range(infs[i].vals) = Range(inf.vals)}

\* the diagnostic of a row's inference inf that repeats the registry's old
DuplicateInf(old, inf) ==
  [k |-> "duplicate inf", fil1 |-> old.fil, row1 |-> old.row,
   fil2 |-> inf.fil, row2 |-> inf.row]

\* C6: when a data row ends (the Ce callback) with an inference equal to one
\* of the registry, of this file or of an earlier one, the load stops, the
\* diagnostic 'duplicate inf' cites the file and row of both, and the
\* registry is what it was: it holds the first inference only.
C6_DuplicateInfStopsLoad ==
  [][(/\ phase = "load" /\ pcol >= 1 /\ pcol' = -1
      /\ csv.inf # <<>>
      /\ DupOf(csv.infs, csv.inf[1]) # {})
     => /\ phase' = "exit"
        /\ csv'.infs = csv.infs
        /\ Cardinality(DupOf(csv.infs, csv.inf[1])) = 1
        /\ \A i \in DupOf(csv.infs, csv.inf[1]) :
             /\ DuplicateInf(csv.infs[i], csv.inf[1]) \in err'
             /\ <<csv.infs[i].fil, csv.infs[i].row>> # <<csv.inf[1].fil, csv.inf[1].row>>]_vars

\* C6: a load stopped by an inference of the second file that repeats one of
\* the first file, the registry holding the first.
C6_DuplicateAcrossFiles ==
  /\ phase = "exit" /\ csv.inf # <<>> /\ csv.inf[1].vals # <<>>
  /\ \E i \in DupOf(csv.infs, csv.inf[1]) :
       /\ csv.infs[i].fil = 1 /\ csv.inf[1].fil = 2
       /\ DuplicateInf(csv.infs[i], csv.inf[1]) \in err

\* C7: every cell of a data row that is not empty and whose column is not
\* less than the number of Names of the header in force (none before the
\* first header) is rejected with the excess-cell diagnostic, whatever lies
\* beyond the column map.
C7_ExcessCellRejected ==
  (phase = "load" /\ pcol >= 0 /\ pcol < MaxCols /\ ~csv.inCom /\ ~csv.inNam
     /\ pcol >= csv.coln) =>
    \A s \in 1..MaxSym : \A g \in ColReads(csv, pcol, <<"sym", s>>) :
      /\ csvCb_Cv(csv, prow + 1, pcol, <<"sym", s>>, g).rc = 1
      /\ csvCb_Cv(csv, prow + 1, pcol, <<"sym", s>>, g).msg[1].k = "excess CSValue"

\* C7: the process faulted in the loader on its read of the column map.
C7_LoaderFaults == phase = "fault"

\* C8: a run that ends with a diagnostic has written no D, T, R, L or J
\* line; it has written nothing at all unless the diagnostic is
\* 'unresolvable', and then exactly the I and O lines, which main writes
\* before the build.
C8_NoProgramAfterDiagnostic ==
  (phase = "exit" /\ err # {}) =>
    /\ CodeLines(out) = {}
    /\ IF \E e \in err : e.k = "unresolvable"
       THEN out = ILines(vals, 1) \o OLines(csv.infs, 1)
       ELSE out = <<>>

\* C8: a run ended by 'unresolvable' with its I and O lines written.
C8_ListingCutAfterO ==
  /\ phase = "exit"
  /\ \E e \in err : e.k = "unresolvable"
  /\ LinesOf(out, "I") # {} /\ LinesOf(out, "O") # {} /\ CodeLines(out) = {}

\* C8 as stated: a run that ends with a diagnostic has written no line.
C8_NoLineAfterDiagnostic == (phase = "exit" /\ err # {}) => out = <<>>

\* the greatest number of tests a replay of the listing executes
ReplayTests(lines, vs) == Max({Replay(lines, a).tests : a \in Asgs(vs)})

AllVals == UNION {Range(csv.nams[i].vals) : i \in 1..Len(csv.nams)}

\* a Value no inference concludes
Independent(v) == \A i \in 1..Len(csv.infs) : csv.infs[i].val # v

\* some Value is independent, and a Name with an independent Value has no
\* other Values
IndependenceOk ==
  /\ \E v \in AllVals : Independent(v)
  /\ \A v \in AllVals : \A w \in AllVals :
       (v[1] = w[1] /\ Independent(v)) => Independent(w)

\* C10: the build starts only if there is an independent Value and every Name
\* with an independent Value has only independent Values; otherwise the run
\* ends with a diagnostic and no tree; so every Name of a compiled table is
\* wholly independent or wholly concluded.
C10_BuildNeedsIndependence ==
  /\ (phase \in {"analysed", "built", "chkd", "hang"} \/ blds # <<>> \/ nod # 0)
       => IndependenceOk
  /\ (phase \notin {"load", "checked"} /\ SemDiags(csv) = {} /\ ~IndependenceOk)
       => /\ phase = "exit" /\ blds = <<>> /\ nod = 0 /\ out = <<>>
          /\ \E e \in err :
               e.k \in {"no independent values", "independent name has dependent value"}
  /\ Emitted =>
       \A i \in 1..Len(csv.nams) :
         \/ \A v \in Range(csv.nams[i].vals) : Independent(v)
         \/ \A v \in Range(csv.nams[i].vals) : ~Independent(v)

\* C10: a run ended before the build because a Name has both an independent
\* and a concluded Value.
C10_MixedNameRejected ==
  /\ phase = "exit" /\ blds = <<>>
  /\ \E v \in AllVals : \E w \in AllVals : v[1] = w[1] /\ Independent(v) /\ ~Independent(w)
  /\ \E e \in err : e.k = "independent name has dependent value"

\* a step that delivers the cell of column pcol and leaves the load running
CellStep == phase = "load" /\ pcol >= 0 /\ pcol' = pcol + 1 /\ phase' = "load"

\* the cell interned a Value of Name n: it is in the Name's values, and it is
\* the conclusion of a new inference (column 0) or one more condition
Interned(n, c) ==
  /\ csv'.inf # <<>>
  /\ IF c = 0
     THEN /\ csv'.inf[1].val[1] = n
          /\ csv'.inf[1].vals = <<>>
          /\ csv'.inf[1].val \in Range(NamVals(csv'.nams, n))
     ELSE /\ csv.inf # <<>>
          /\ csv'.inf[1].val = csv.inf[1].val
          /\ \E v \in Range(NamVals(csv'.nams, n)) :
               /\ v[1] = n
               /\ v \notin Range(csv.inf[1].vals)
               /\ Range(csv'.inf[1].vals) = Range(csv.inf[1].vals) \cup {v}

\* C11: the column map is rebuilt by each header row (its first cell leaves
\* one Name, each further cell appends one) and changed by no other row; a
\* data cell in a column c below the header's width is ignored when empty and
\* otherwise interned as a Value of the map's Name of column c, column 0 as
\* the inference's conclusion; a cell of a comment row changes neither the
\* map nor a registry nor the open inference.
C11_CellsFollowLatestHeader ==
  [][CellStep =>
       /\ csv'.inNam =>
            /\ csv'.coln = (IF pcol = 0 THEN 0 ELSE csv.coln) + 1
            /\ Len(csv'.col) = csv'.coln
            /\ \A j \in 1..(csv'.coln - 1) : csv'.col[j] = csv.col[j]
       /\ ~csv'.inNam => (csv'.col = csv.col /\ csv'.coln = csv.coln)
       /\ csv'.inCom =>
            /\ csv'.syms = csv.syms /\ csv'.nams = csv.nams
            /\ csv'.infs = csv.infs /\ csv'.inf = csv.inf
       /\ (~csv'.inNam /\ ~csv'.inCom /\ pcol < csv.coln) =>
            \/ (pcol > 0 /\ csv' = csv)
            \/ Interned(csv.col[pcol + 1], pcol)]_vars

\* C11: after two rows that left no inference, a data row has its conclusion
\* under the Name of column 0 and a condition under the Name of column 1, the
\* columns not in the order of the Names.
C11_DataRowUnderHeader ==
  /\ phase = "load" /\ prow = 2 /\ pcol = 2 /\ csv.infs = <<>>
  /\ ~csv.inNam /\ ~csv.inCom /\ csv.coln = 2 /\ csv.inf # <<>>
  /\ csv.col[1] > csv.col[2]
  /\ csv.inf[1].val[1] = csv.col[1]
  /\ Len(csv.inf[1].vals) = 1 /\ csv.inf[1].vals[1][1] = csv.col[2]

\* the candidate of test t on the frontier of store entry i
CandOf(i, t) == Candidate(Graph, blds[i].vals, blds[i].infs, t)

\* the frontiers the build worked on and their tests
Fronts == {x \in (1..Len(blds)) \X Range(vals) : x[2] \in Range(blds[x[1]].vals)}

\* the Values of Name n in the sequence vs
OfNam(vs, n) == {v \in Range(vs) : v[1] = n}

RECURSIVE RunTests(_, _, _, _, _)
\* the tests a replay executes from line pc, in order: <<Value, held>>
RunTests(lines, a, pc, tr, fuel) ==
  IF pc = 0 \/ pc > Len(lines) \/ fuel = 0 THEN tr
  ELSE CASE lines[pc][1] = "T" ->
              IF a[lines[pc][2][1]] = lines[pc][2][2]
              THEN RunTests(lines, a, LabelAt(lines, lines[pc][3]),
                            Append(tr, <<lines[pc][2], TRUE>>), fuel - 1)
              ELSE RunTests(lines, a, pc + 1, Append(tr, <<lines[pc][2], FALSE>>), fuel - 1)
         [] lines[pc][1] = "J" -> RunTests(lines, a, LabelAt(lines, lines[pc][2]), tr, fuel - 1)
         [] lines[pc][1] = "L" /\ lines[pc][2] = 0 -> tr
         [] OTHER -> RunTests(lines, a, pc + 1, tr, fuel - 1)

ReplayTrace(lines, a) == RunTests(lines, a, 1, <<>>, Len(lines) + 1)

\* test j of the trace repeats the Name of a test before it that held, or
\* that failed on a Name of two Values
Redundant(tr, j) ==
  \E i \in 1..(j - 1) :
    /\ tr[i][1][1] = tr[j][1][1]
    /\ tr[i][2] \/ Cardinality(OfNam(vals, tr[i][1][1])) = 2

\* C12 (the frontier): on every frontier the build worked on and for every
\* test t of it, the does-not-hold frontier valsSubVal returns holds neither t
\* nor exactly one Value of t's Name.
C12_SoleSiblingDropped ==
  Built =>
    \A x \in Fronts :
      (~CandOf(x[1], x[2]).hang /\ CandOf(x[1], x[2]).nO # <<>>) =>
        /\ x[2] \notin Range(CandOf(x[1], x[2]).fO)
        /\ Cardinality(OfNam(CandOf(x[1], x[2]).fO, x[2][1])) # 1

\* C12: a frontier whose does-not-hold side lost the sole sibling of the test
\* and kept Values of another Name.
C12_SiblingCollapsed ==
  /\ Built
  /\ \E x \in Fronts :
       /\ ~CandOf(x[1], x[2]).hang
       /\ CandOf(x[1], x[2]).fO # <<>>
       /\ OfNam(CandOf(x[1], x[2]).fO, x[2][1]) = {}
       /\ \E v \in OfNam(blds[x[1]].vals, x[2][1]) :
            v # x[2] /\ InSomeInf(v, CandOf(x[1], x[2]).nO)

\* C12 (the program): no replay of an emitted listing tests a Name again
\* after a test of it held, nor after a test of it failed when the Name has
\* two Values.
C12_NoRedundantTest ==
  Emitted =>
    \A a \in Asgs(vals) :
      \A j \in 1..Len(ReplayTrace(out, a)) : ~Redundant(ReplayTrace(out, a), j)

RECURSIVE Repeats(_, _, _, _)
\* a path of the tree under node n tests a Name again after a test of it
\* held (Names in held) or failed on a Name of two Values (Names in failed)
Repeats(bs, n, held, failed) ==
  IF n = 0 THEN FALSE
  ELSE IF bs[n].nod.val = <<>> THEN FALSE
  ELSE \/ bs[n].nod.val[1] \in held \cup failed
       \/ Repeats(bs, bs[n].nod.nodV, held \cup {bs[n].nod.val[1]}, failed)
       \/ Repeats(bs, bs[n].nod.nodO, held,
                  IF Cardinality(OfNam(vals, bs[n].nod.val[1])) = 2
                  THEN failed \cup {bs[n].nod.val[1]} ELSE failed)

\* C12: an emitted listing of a tree none of whose paths repeats a Name, with
\* a replay that tests a Name again after a test of it held.
C12_ReplayRepeatsHeldName ==
  /\ Emitted
  /\ ~Repeats(blds, nod, {}, {})
  /\ \E a \in Asgs(vals) :
       \E j \in 1..Len(ReplayTrace(out, a)) : \E i \in 1..(j - 1) :
         /\ ReplayTrace(out, a)[i][1][1] = ReplayTrace(out, a)[j][1][1]
         /\ ReplayTrace(out, a)[i][2]

\* C12 (the tree): no path of a built tree repeats a Name.
C12_TreeRepeatsNoName == Built => ~Repeats(blds, nod, {}, {})

\* the array is strictly ascending under comparison f
Ascending(s, f) == \A i \in 1..(Len(s) - 1) : Cmp(f, s[i], s[i + 1]) < 0

\* what an Add of e to table tab owes: a the result, f the comparison
AddOk(a, tab, e, f) ==
  /\ IF \E x \in Range(tab) : Cmp(f, e, x) = 0
     THEN a.tab = tab /\ a.ret \in Range(tab) /\ Cmp(f, e, a.ret) = 0
     ELSE /\ a.ret = e
          /\ Len(a.tab) = Len(tab) + 1
          /\ Range(a.tab) = Range(tab) \cup {e}
  /\ Ascending(a.tab, f)

\* the Value tables of the loader: of every Name and of every inference
ValTables ==
  {csv.nams[i].vals : i \in 1..Len(csv.nams)}
    \cup {csv.infs[i].vals : i \in 1..Len(csv.infs)}
    \cup {csv.inf[i].vals : i \in 1..Len(csv.inf)}
    \cup {vals}

\* the inferences an Add can be handed
SomeInfs ==
  Range(csv.infs) \cup Range(csv.inf)
    \cup {[val |-> v, vals |-> t, fil |-> 1, row |-> 1] :
            v \in (1..MaxSym) \X (1..MaxSym), t \in ValTables}

\* C13: every interning table is strictly ascending, and an Add to it of any
\* element returns the equal element already there and leaves the table as it
\* was, or else inserts the element and returns it, the table still strictly
\* ascending.
C13_AddInternsInOrder ==
  /\ Ascending(csv.syms, "symCmp")
  /\ \A e \in 0..(MaxSym + 1) : AddOk(symsAdd(csv.syms, e), csv.syms, e, "symCmp")
  /\ Ascending(csv.nams, "namsSrtCmp")
  /\ \A e \in 0..(MaxSym + 1) :
       AddOk(namsAdd(csv.nams, namNew(e)), csv.nams, namNew(e), "namsSrtCmp")
  /\ \A t \in ValTables :
       /\ Ascending(t, "valsSrtCmp")
       /\ \A e \in (1..MaxSym) \X (0..(MaxSym + 1)) :
            AddOk(valsAdd(t, e), t, e, "valsSrtCmp")
  /\ \A t \in {csv.infs} \cup {vinfs[v] : v \in DOMAIN vinfs} :
       /\ Ascending(t, "infsSrtCmp")
       /\ \A e \in SomeInfs : AddOk(infsAdd(t, e), t, e, "infsSrtCmp")

\* C13: a second data row whose conclusion sorts before the first row's and
\* whose condition was interned by the first row already.
C13_InsertedBeforeAndFound ==
  /\ phase = "load" /\ prow = 2 /\ pcol = 2
  /\ Len(csv.infs) = 1 /\ Len(csv.inf) = 1
  /\ csv.infs[1].vals # <<>>
  /\ csv.inf[1].vals = csv.infs[1].vals
  /\ valCmp(csv.inf[1].val, csv.infs[1].val) < 0
  /\ Len(NamVals(csv.nams, csv.inf[1].val[1])) = 2
  /\ Len(NamVals(csv.nams, csv.inf[1].vals[1][1])) = 1

\* the inferences of infs having Value v among their conditions
Users(infs, v) == {x \in Range(infs) : v \in Range(x.vals)}

RECURSIVE Reach(_, _)
\* the smallest set holding S and, with an inference x, every inference
\* having x's conclusion among its conditions
Reach(infs, S) ==
  LET new == UNION {Users(infs, x.val) : x \in S}
  IN IF new \subseteq S THEN S ELSE Reach(infs, S \cup new)

\* C14: the infs field of every independent Value is the closure under
\* chaining of the inferences having the Value among their conditions.
C14_InfsIsChainClosure ==
  \A v \in DOMAIN vinfs : Range(vinfs[v]) = Reach(csv.infs, Users(csv.infs, v))

\* C14: an independent Value whose infs field lacks an inference that has
\* the conclusion of one of its members among its conditions.
C14_ChainedInferenceMissing ==
  \E v \in DOMAIN vinfs : \E x \in Range(vinfs[v]) :
    Users(csv.infs, x.val) \ Range(vinfs[v]) # {}

\* C14 (the code): the infs field of every independent Value holds the
\* inferences having the Value among their conditions and no other.
C14_InfsIsUsers ==
  \A v \in DOMAIN vinfs : Range(vinfs[v]) = Users(csv.infs, v)

\* the conditions vs hold two Values of one Name
TwoOfNam(vs) == \E i, j \in 1..Len(vs) : i # j /\ vs[i][1] = vs[j][1]

\* C15: no inference, interned or under construction, has two Values of the
\* same Name among its conditions.
C15_OneValuePerName ==
  \A x \in Range(csv.infs) \cup Range(csv.inf) : ~TwoOfNam(x.vals)

\* C15: the load goes on without a diagnostic after an inference with two
\* Values of one Name among its conditions was interned.
C15_TwoValuesOfNameLoaded ==
  /\ phase = "load" /\ err = {}
  /\ \E x \in Range(csv.infs) : TwoOfNam(x.vals)

\* the Values of vs not of t's Name that are a condition of an inference of infs
KeptByValue(vs, t, infs) ==
  SelectSeq(vs, LAMBDA v : v[1] # t[1] /\ \E x \in Range(infs) : v \in Range(x.vals))

\* the Values of vs not of t's Name whose Name is the Name of a condition of
\* an inference of infs
KeptByName(vs, t, infs) ==
  SelectSeq(vs, LAMBDA v : v[1] # t[1]
                           /\ \E x \in Range(infs) : \E w \in Range(x.vals) : w[1] = v[1])

\* C16 (as stated): on every frontier the build worked on and for every test
\* t of it, valsSubValNam returns the Values of other Names whose Name is the
\* Name of some condition of the continuation.
C16_KeepsNamesInConditions ==
  Built =>
    \A x \in Fronts :
      (~CandOf(x[1], x[2]).hang /\ CandOf(x[1], x[2]).nV # <<>>) =>
        CandOf(x[1], x[2]).fV = KeptByName(blds[x[1]].vals, x[2], CandOf(x[1], x[2]).nV)

\* C16 (amended): on every frontier the build worked on and for every test t
\* of it, valsSubValNam returns the Values of other Names that are themselves
\* a condition of some inference of the continuation.
C16_KeepsValuesInConditions ==
  Built =>
    \A x \in Fronts :
      (~CandOf(x[1], x[2]).hang /\ CandOf(x[1], x[2]).nV # <<>>) =>
        CandOf(x[1], x[2]).fV = KeptByValue(blds[x[1]].vals, x[2], CandOf(x[1], x[2]).nV)

\* C16: a holds-side frontier that lost a Value another Value of whose Name
\* is a condition of the continuation.
C16_ValueOfKeptNameDropped ==
  /\ Built
  /\ \E x \in Fronts :
       /\ ~CandOf(x[1], x[2]).hang
       /\ CandOf(x[1], x[2]).nV # <<>>
       /\ CandOf(x[1], x[2]).fV # <<>>
       /\ \E v \in Range(KeptByName(blds[x[1]].vals, x[2], CandOf(x[1], x[2]).nV)) :
            v \notin Range(CandOf(x[1], x[2]).fV)

RECURSIVE DependsOn(_, _, _, _)
\* Value c depends, directly or through a chain of at most n inferences of
\* infs, on a Value of vs
DependsOn(infs, vs, c, n) ==
  /\ n > 0
  /\ \E x \in Range(infs) :
       /\ x.val = c
       /\ \E w \in Range(x.vals) : w \in Range(vs) \/ DependsOn(infs, vs, w, n - 1)

\* what infsResVal returned for test t on stored frontier i
ResOf(i, t) == infsResVal(Graph, blds[i].vals, blds[i].infs, t)

\* C17: on every frontier the build worked on and for every test t of it,
\* every inference infsResVal returns is in infs and in t's infs field, has
\* no condition other than t in vals, and has no condition that depends,
\* directly or through a chain of inferences of infs, on a Value in vals.
C17_ResolvedThroughChains ==
  Built =>
    \A x \in Fronts : \A r \in Range(ResOf(x[1], x[2])) :
      /\ r \in Range(blds[x[1]].infs) /\ r \in Range(vinfs[x[2]])
      /\ \A c \in Range(r.vals) \ {x[2]} :
           /\ c \notin Range(blds[x[1]].vals)
           /\ ~DependsOn(blds[x[1]].infs, blds[x[1]].vals, c, Len(blds[x[1]].infs))

\* C17: infsResVal returned an inference with a condition that depends on
\* no Value of vals directly and on one through a chain of two inferences.
C17_ChainedConditionPassed ==
  /\ Built
  /\ \E x \in Fronts : \E r \in Range(ResOf(x[1], x[2])) : \E c \in Range(r.vals) \ {x[2]} :
       /\ ~DependsOn(blds[x[1]].infs, blds[x[1]].vals, c, 1)
       /\ DependsOn(blds[x[1]].infs, blds[x[1]].vals, c, 2)

\* C17 (the code): every inference infsResVal returns is in infs and in t's
\* infs field, has no condition other than t in vals, and has no condition
\* concluded by an inference of infs with a condition in vals.
C17_ResolvedOneStep ==
  Built =>
    \A x \in Fronts : \A r \in Range(ResOf(x[1], x[2])) :
      /\ r \in Range(blds[x[1]].infs) /\ r \in Range(vinfs[x[2]])
      /\ \A c \in Range(r.vals) \ {x[2]} :
           /\ c \notin Range(blds[x[1]].vals)
           /\ ~DependsOn(blds[x[1]].infs, blds[x[1]].vals, c, 1)

\* the node of store entry j has a test
TestBearing(j) == blds[j].nod.val # <<>>

\* the entries of the store whose node has a test: the candidates installed
Installed == {i \in 1..Len(blds) : TestBearing(i)}

\* the child of candidate t of stored frontier i on side s, when the store
\* holds it: 0 when the candidate has no such child or it was not built
ChildOf(i, t, s) ==
  IF CandOf(i, t).hang THEN 0
  ELSE IF s = "V"
  THEN IF CandOf(i, t).nV = <<>> THEN 0
       ELSE bldsFnd(blds, CandOf(i, t).fV, CandOf(i, t).nV)
  ELSE IF CandOf(i, t).nO = <<>> THEN 0
       ELSE bldsFnd(blds, CandOf(i, t).fO, CandOf(i, t).nO)

\* C18 (as stated): every candidate installed has a child with a test.
C18_ChildlessNeverInstalled ==
  Built =>
    \A i \in Installed :
      \/ blds[i].nod.nodV # 0 /\ TestBearing(blds[i].nod.nodV)
      \/ blds[i].nod.nodO # 0 /\ TestBearing(blds[i].nod.nodO)

\* C18 (amended): a candidate installed has depth 0 when it has no child,
\* 1 + the greater depth when it has both children, 1 + the child's depth
\* when it has one; every child it has bears a test; and a candidate that
\* has a child without a test is not the one installed.
C18_DepthFromTestBearingChildren ==
  Built =>
    /\ \A i \in Installed :
         LET n == blds[i].nod
         IN /\ (n.nodV = 0 /\ n.nodO = 0) => n.d = 0
            /\ n.nodV # 0 => TestBearing(n.nodV)
            /\ n.nodO # 0 => TestBearing(n.nodO)
            /\ (n.nodV # 0 /\ n.nodO # 0) =>
                 n.d = 1 + Max({blds[n.nodV].nod.d, blds[n.nodO].nod.d})
            /\ (n.nodV # 0 /\ n.nodO = 0) => n.d = 1 + blds[n.nodV].nod.d
            /\ (n.nodV = 0 /\ n.nodO # 0) => n.d = 1 + blds[n.nodO].nod.d
    /\ \A x \in Fronts :
         (\E s \in {"V", "O"} :
            ChildOf(x[1], x[2], s) # 0 /\ ~TestBearing(ChildOf(x[1], x[2], s)))
           => blds[x[1]].nod.val # x[2]

\* C18: a candidate without children is installed with depth 0, and a
\* candidate with a child without a test was passed over for another.
C18_ChildlessInstalled ==
  /\ Built
  /\ \E i \in Installed :
       blds[i].nod.nodV = 0 /\ blds[i].nod.nodO = 0 /\ blds[i].nod.d = 0
  /\ \E x \in Fronts :
       /\ x[1] \in Installed
       /\ \E s \in {"V", "O"} :
            ChildOf(x[1], x[2], s) # 0 /\ ~TestBearing(ChildOf(x[1], x[2], s))

\* build(vals, infs, bd, q) of stored frontier i with an empty store
Fresh(i, bd) == nodBld(Graph, <<>>, blds[i].vals, blds[i].infs, bd, q)

\* the test Value, the buckets and the depth of a node
Shape(n) == <<n.val, n.infsV, n.infsO, n.d>>

\* the node the store holds for frontier i is the node a build of the
\* frontier alone returns under bound bd
SameAsFresh(i, bd) ==
  ~Fresh(i, bd).hang =>
    Shape(blds[i].nod) = Shape(Fresh(i, bd).blds[Fresh(i, bd).nod].nod)

\* C19: the node the store holds for a frontier has the test Value, the
\* buckets and the depth of the node that a build of the frontier alone
\* returns under the bound of the outermost call.
C19_StoredNodeIsFrontiersNode ==
  Built => \A i \in 1..Len(blds) : SameAsFresh(i, Len(vals))

\* C19: the store holds a node without a test, computed under a tightened
\* bound, for a frontier whose build under the bound of the outermost call
\* returns a node with a test.
C19_LeafStoredUnderTightBound ==
  /\ Built
  /\ \E i \in 1..Len(blds) :
       /\ ~TestBearing(i)
       /\ ~Fresh(i, Len(vals)).hang
       /\ Fresh(i, Len(vals)).blds[Fresh(i, Len(vals)).nod].nod.val # <<>>

\* the object graph of a run whose qsort leaves equal candidates reversed
GraphRev == [nams |-> csv.nams, vinfs |-> vinfs, rev |-> TRUE]

\* the build of that run
BuildRev == nodBld(GraphRev, <<>>, vals, csv.infs, Len(vals), q)

\* that run writes a D line: its build returns and nodChk finds nothing
WritesDRev == ~BuildRev.hang /\ nodChk(BuildRev.blds, BuildRev.nod) = {}

\* the root that run's build returns
RootRev == BuildRev.blds[BuildRev.nod].nod

C20_QuickDepthFollowsTieOrder ==
  /\ phase = "chkd" /\ q = 1 /\ WritesDRev
  /\ DLine(RootRev)[2] # DLine(Root)[2]


\* the emitter's state after the tree has been written
EmitEnd == outNod(Put(outNew(blds), DLine(Root)), blds, nod)

\* the nodes the emitter reached more than once: each entry of the branch
\* table stands for one call of outBrnCon, hence of outNod, on its node
Revisited(O) ==
  {n \in 1..Len(blds) : Cardinality({i \in 1..Len(O.b) : O.b[i].n = n}) >= 2}

RECURSIVE FirstT(_, _, _)
\* the Value of the first test a replay executes from line pc, <<>> if none
FirstT(lines, pc, fuel) ==
  IF pc = 0 \/ pc > Len(lines) \/ fuel = 0 THEN <<>>
  ELSE CASE lines[pc][1] = "T" -> lines[pc][2]
         [] lines[pc][1] = "J" -> FirstT(lines, LabelAt(lines, lines[pc][2]), fuel - 1)
         [] lines[pc][1] = "L" /\ lines[pc][2] = 0 -> <<>>
         [] OTHER -> FirstT(lines, pc + 1, fuel - 1)

\* the conclusions of a bucket
BucketVals(infs) == {infs[i].val : i \in 1..Len(infs)}

RECURSIVE Descend(_, _, _, _, _)
\* the descent of the tree from node n under assignment a: the tests in
\* order and the conclusions of the buckets passed
Descend(bs, n, a, tr, rec) ==
  IF n = 0 THEN [tr |-> tr, rec |-> rec]
  ELSE IF bs[n].nod.val = <<>>
       THEN [tr |-> tr, rec |-> rec \cup BucketVals(bs[n].nod.infsV)]
  ELSE IF a[bs[n].nod.val[1]] = bs[n].nod.val[2]
       THEN Descend(bs, bs[n].nod.nodV, a, Append(tr, <<bs[n].nod.val, TRUE>>),
                    rec \cup BucketVals(bs[n].nod.infsV))
       ELSE Descend(bs, bs[n].nod.nodO, a, Append(tr, <<bs[n].nod.val, FALSE>>),
                    rec \cup BucketVals(bs[n].nod.infsO))

\* C21: in every emitted listing the label the emitter jumps to for a node
\* it reaches again leads to that node's own T test first, and for every
\* assignment the replay performs the tests and records the conclusions of
\* the descent of the tree.
C21_RevisitJumpsToNode ==
  Emitted =>
    /\ \A n \in Revisited(EmitEnd) :
         FirstT(out, LabelAt(out, EmitEnd.lbl[n]), Len(out) + 1) = blds[n].nod.val
    /\ \A a \in Asgs(vals) :
         /\ ReplayTrace(out, a) = Descend(blds, nod, a, <<>>, {}).tr
         /\ Replay(out, a).rec = Descend(blds, nod, a, <<>>, {}).rec

\* C21: an emitted listing of a tree with a node reached from two branches,
\* where the label written for the second visit does not lead to the node's
\* test and a replay performs other tests than the descent of the tree.
C21_RevisitSkipsTest ==
  /\ Emitted
  /\ \E n \in Revisited(EmitEnd) :
       FirstT(out, LabelAt(out, EmitEnd.lbl[n]), Len(out) + 1) # blds[n].nod.val
  /\ \E a \in Asgs(vals) :
       ReplayTrace(out, a) # Descend(blds, nod, a, <<>>, {}).tr


\* sequence a is the beginning of sequence b
IsPrefix(a, b) == Len(a) <= Len(b) /\ SubSeq(b, 1, Len(a)) = a

\* the store after entry j is built again over the entries before it
Rebuilt(j) ==
  nodBld(Graph, SubSeq(blds, 1, j - 1), blds[j].vals, blds[j].infs, Len(vals), q).blds

\* the emitter's state after node m alone has been written
EmitOf(m) == outNod(outNew(blds), blds, m)

\* the build neither changes its arguments nor an installed entry
BuildFrame ==
  Built =>
    /\ blds[nod].vals = vals /\ blds[nod].infs = csv.infs
    /\ \A j \in 1..Len(blds) : IsPrefix(SubSeq(blds, 1, j - 1), Rebuilt(j))

\* a label once assigned is kept by every later visit
LabelFrame ==
  Emitted =>
    \A m \in Installed :
      \A n \in 1..Len(blds) :
        EmitOf(m).lbl[n] # 0 => outNod(EmitOf(m), blds, nod).lbl[n] = EmitOf(m).lbl[n]

\* the writes of a step after the load
LaterWrites ==
  phase # "load" =>
    /\ csv' = csv
    /\ (phase = "checked" => vals = <<>> /\ vinfs = <<>>)
    /\ (phase # "checked" => vals' = vals /\ vinfs' = vinfs)
    /\ (phase = "analysed" => blds = <<>> /\ nod = 0)
    /\ (phase # "analysed" => blds' = blds /\ nod' = nod)

\* C22: after the load no step changes a symbol, Name, Value, inference or
\* collection; the independent Values and their infs are assigned once by the
\* analysis, the store once by the build, which changes neither its arguments
\* nor an entry already installed, and a node's label is assigned on the
\* emitter's first visit and kept afterwards.
C22_OnlyLaterWrites == [][LaterWrites]_vars /\ []BuildFrame /\ []LabelFrame

\* C22: an emitted listing of a table whose root frontier the build sorted
\* into another order, with a node the emitter reached more than once.
C22_SortedCopyAndRevisit ==
  /\ Emitted
  /\ qsortVals(Graph, vals) # vals
  /\ Len(blds) >= 3
  /\ Revisited(EmitEnd) # {}


\* the pairs of single-condition inferences that conclude each other's
\* condition
Cycles(infs) ==
  {p \in (1..Len(infs)) \X (1..Len(infs)) :
     /\ infs[p[1]].vals = <<infs[p[2]].val>>
     /\ infs[p[2]].vals = <<infs[p[1]].val>>}

\* C23 (the recursion): on every frontier the build worked on, both child
\* frontiers of every test hold strictly fewer Values than the frontier.
C23_ChildFrontiersShrink ==
  Built =>
    \A x \in Fronts :
      ~CandOf(x[1], x[2]).hang =>
        /\ Len(CandOf(x[1], x[2]).fV) < Len(blds[x[1]].vals)
        /\ Len(CandOf(x[1], x[2]).fO) < Len(blds[x[1]].vals)

\* C23: no build fails to return: the compilation of every table that
\* passes the semantic checks goes on to the consistency check, also when
\* single-condition inferences form a cycle, and every child frontier of the
\* build holds fewer Values than its parent.
C23_CompilationTerminates == phase # "hang" /\ C23_ChildFrontiersShrink

\* C23: a table that passed the semantic checks and the independence
\* analysis, with two single-condition inferences that conclude each other's
\* condition, whose build does not return.
C23_CycleNeverReturns ==
  /\ phase = "hang"
  /\ err = {}
  /\ Cycles(csv.infs) # {}


\* C24: no node of the store has a child without a test; when the root has
\* no test the consistency check reports a pair, so that the run gets to the
\* emitter only with a root that has a test; and in every output each R line
\* is followed by another R line, a T line or a J line.
C24_EmittedNodesBearTests ==
  /\ Built =>
       /\ \A i \in 1..Len(blds) :
            /\ blds[i].nod.nodV # 0 => TestBearing(blds[i].nod.nodV)
            /\ blds[i].nod.nodO # 0 => TestBearing(blds[i].nod.nodO)
       /\ ~TestBearing(nod) => nodChk(blds, nod) # {}
  /\ (phase = "chkd" \/ Emitted) => TestBearing(nod)
  /\ \A i \in LinesOf(out, "R") : i < Len(out) /\ out[i + 1][1] \in {"R", "T", "J"}

\* C24: a run that ended after a build whose root has no test: a candidate
\* of the root frontier had a child without a test, the check reported a
\* pair of the root's bucket and no D line was written.
C24_LeafRootStopsRun ==
  /\ phase = "exit" /\ nod # 0
  /\ ~TestBearing(nod)
  /\ \E t \in Range(vals) : \E s \in {"V", "O"} :
       ChildOf(nod, t, s) # 0 /\ ~TestBearing(ChildOf(nod, t, s))
  /\ infsChk(Root.infsV) # {} /\ infsChk(Root.infsV) \subseteq err
  /\ LinesOf(out, "D") = {}


\* two different Values of one Name are in the set
TwoValues(rec) == \E v \in rec : \E w \in rec : v[1] = w[1] /\ v[2] # w[2]

\* C25: in every emitted listing, no replay that goes from the first line to
\* L,0 records two different Values of one Name.
C25_OneValuePerNameOnPath ==
  Emitted =>
    \A a \in Asgs(vals) :
      Replay(out, a).st = "end" => ~TwoValues(Replay(out, a).rec)

\* C25: an emitted listing, every target of which is defined by one L line,
\* with an assignment whose replay ends at L,0, performs the tests and
\* records the conclusions of the descent of the tree, and records two
\* Values of one Name that no bucket of the tree holds together.
C25_TwoValuesAcrossBuckets ==
  /\ Emitted
  /\ \A n \in Targets(out) : Defs(out, n) = 1
  /\ \A b \in Buckets(blds, nod) : Conflicts(b) = {}
  /\ \E a \in Asgs(vals) :
       /\ Replay(out, a).st = "end"
       /\ ReplayTrace(out, a) = Descend(blds, nod, a, <<>>, {}).tr
       /\ Replay(out, a).rec = Descend(blds, nod, a, <<>>, {}).rec
       /\ TwoValues(Descend(blds, nod, a, <<>>, {}).rec)

====
